---- MODULE Spec2Model ----
(***************************************************************************)
(* Model of prober/icmp.go: the process-wide ICMP sequence counter         *)
(* (getICMPSequence) and one ICMP echo probe (ProbeICMP), run by several   *)
(* concurrent callers against a simulated clock, resolver, socket and      *)
(* transport.                                                              *)
(***************************************************************************)
EXTENDS Integers, Sequences, FiniteSets, TLC

\* ------------------------------------------------------------------ bounds
\* Number of concurrent ProbeICMP invocations.
NumProbes == 2
\* The absolute deadline carried by the caller's context (clock ticks).
CtxDeadline == 1
\* Transport events (packets delivered, read errors) in one run.
MaxReads == 2
\* Calls made by the sequential caller of the counter-only specification.
MaxCalls == 65537
\* os.Getpid() of the exporter process.
Getpid == 70001

Probes == 1..NumProbes
\* The clock runs one tick past the caller's deadline.
MaxTime == CtxDeadline + 1

\* ----------------------------------------------------- protocol constants
\* golang.org/x/net/ipv4 and ipv6 echo types, internal/iana protocol numbers.
ICMPTypeEcho == 8
ICMPTypeEchoReply == 0
ICMPTypeEchoRequest6 == 128
ICMPTypeEchoReply6 == 129
ProtocolICMP == 1
ProtocolIPv6ICMP == 58
\* uint16 arithmetic of icmpSequence.
Uint16 == 65536

\* An icmp.Type value is an interface: its dynamic type (the protocol) and its
\* number.  The zero value of an icmp.Type variable is nil.
NilType == [proto |-> 0, num |-> 0]
V4Echo == [proto |-> ProtocolICMP, num |-> ICMPTypeEcho]
V4EchoReply == [proto |-> ProtocolICMP, num |-> ICMPTypeEchoReply]
V6EchoRequest == [proto |-> ProtocolIPv6ICMP, num |-> ICMPTypeEchoRequest6]
V6EchoReply == [proto |-> ProtocolIPv6ICMP, num |-> ICMPTypeEchoReply6]

\* []byte("Prometheus Blackbox Exporter")
Data ==
  << 80, 114, 111, 109, 101, 116, 104, 101, 117, 115, 32, 66, 108, 97, 99,
     107, 98, 111, 120, 32, 69, 120, 112, 111, 114, 116, 101, 114 >>

\* -------------------------------------------------------------- addresses
\* What chooseProtocol can resolve the target to, and the other hosts whose
\* ICMP traffic reaches a wildcard socket of the same family.
TargetV4 == [addr |-> "192.0.2.1", v4 |-> TRUE]
TargetV6 == [addr |-> "2001:db8::1", v4 |-> FALSE]
NoIP == [addr |-> "", v4 |-> FALSE]
StrangerOf(ipaddr) == IF ipaddr.v4 THEN "192.0.2.7" ELSE "2001:db8::7"

\* chooseProtocol(preference, target, ...) -> (ip, err): a resolution error
\* or one concrete address of either family.
chooseProtocol ==
  { [err |-> TRUE, ip |-> NoIP],
    [err |-> FALSE, ip |-> TargetV4],
    [err |-> FALSE, ip |-> TargetV6] }

\* ------------------------------------------------------------ packet codec
\* icmp.Echo.Marshal: identifier and sequence big-endian, then the data.
EchoMarshal(body) ==
  << body.ID \div 256, body.ID % 256, body.Seq \div 256, body.Seq % 256 >>
    \o body.Data

\* The 16-bit words icmp.checksum adds: b[i+1]<<8 | b[i] for even i below
\* len(b)-1, and the last byte alone when the length is odd (0-based i).
RECURSIVE SumWords(_, _)
SumWords(b, i) ==
  IF i > Len(b) THEN 0
  ELSE IF i = Len(b) THEN b[i]
  ELSE b[i + 1] * 256 + b[i] + SumWords(b, i + 2)

\* icmp.checksum: fold the 32-bit sum twice and complement it.
checksum(b) ==
  LET s0 == SumWords(b, 1)
      s1 == (s0 \div 65536) + (s0 % 65536)
      s2 == s1 + (s1 \div 65536)
  IN  65535 - (s2 % 65536)

\* b[2] ^= byte(s); b[3] ^= byte(s >> 8) on a header whose checksum bytes
\* are zero, so the xor stores the two bytes.
PlaceChecksum(b) ==
  LET s == checksum(b)
  IN  [b EXCEPT ![3] = s % 256, ![4] = s \div 256]

MarshalNoChecksum(m) == << m.Type.num, m.Code, 0, 0 >> \o EchoMarshal(m.Body)
\* icmp.Message.Marshal(nil): type, code, two zero checksum bytes, the body;
\* the checksum is computed for IPv4 and left zero for IPv6 (no pseudo-header).
Marshal(m) ==
  LET b == << m.Type.num, m.Code, 0, 0 >> \o EchoMarshal(m.Body)
  IN  IF m.Type.proto = ProtocolIPv6ICMP THEN b ELSE PlaceChecksum(b)

\* Marshal returns (bytes, error).
MarshalOutcomes == {"ok", "err"}

\* ----------------------------------------------------------- the transport
\* The echo reply a host builds for the request bytes w: the request with the
\* type replaced by the family's echo-reply type and the checksum computed by
\* the replying stack.  For IPv4 that is the ICMP checksum of the reply; for
\* IPv6 it covers a pseudo-header the probe never sees, so ck stands for it.
KernelChecksums == { << 0, 0 >>, << 171, 205 >> }
EchoReplyTo(w, v4, ck) ==
  IF v4
  THEN PlaceChecksum([w EXCEPT ![1] = ICMPTypeEchoReply, ![3] = 0, ![4] = 0])
  ELSE [w EXCEPT ![1] = ICMPTypeEchoReply6, ![3] = ck[1], ![4] = ck[2]]

\* The bytes sent with only the type byte (offset 0) changed to echo reply.
TypeFlipped(w, v4) ==
  [w EXCEPT ![1] = IF v4 THEN ICMPTypeEchoReply ELSE ICMPTypeEchoReply6]

\* A reply damaged on the way: last payload byte changed, last byte cut off,
\* one byte appended, or nothing read at all.
Corrupted(r) == [r EXCEPT ![Len(r)] = (r[Len(r)] + 1) % 256]
Truncated(r) == SubSeq(r, 1, Len(r) - 1)
Padded(r) == r \o << 0 >>

\* rb[2] = 0; rb[3] = 0 seen through rb[:n] (a read shorter than the offset
\* leaves the visible slice unchanged).
ClearChecksum(b) ==
  [i \in 1..Len(b) |-> IF i \in {3, 4} THEN 0 ELSE b[i]]

VARIABLES
  now,                \* the clock (time.Now())
  icmpSequence,       \* var icmpSequence uint16
  icmpSequenceMutex,  \* holder of icmpSequenceMutex, 0 when unlocked
  pc,                 \* position of each ProbeICMP invocation
  t1,                 \* the first time.Now() of line 53
  deadline,           \* deadline
  ip,                 \* ip
  requestType,        \* requestType
  replyType,          \* replyType
  socket,             \* socket: "nil", "open" or "closed"
  readDeadline,       \* read deadline stored in the socket (set: one was stored)
  deferred,           \* defer socket.Close() is registered
  g,                  \* position inside getICMPSequence
  tmp,                \* register of icmpSequence++
  ret,                \* value returned by getICMPSequence
  wm,                 \* wm
  wb,                 \* wb
  rb,                 \* rb[:n]
  peer,               \* peer.String()
  success,            \* the named result
  exit,               \* which return statement ended the probe
  sent,               \* packets written to the socket, in order
  recv,               \* the packet the last successful ReadFrom delivered
  log,                \* outcome of every ReadFrom, in order
  events,             \* packets and read errors the transport has produced
  opened,             \* sockets opened by the probe
  resolves,           \* calls of chooseProtocol
  locks,              \* number of Lock() calls that have returned so far
  ticket,             \* each caller's place in the order of acquisition
  calls,              \* calls started by the sequential caller
  start               \* icmpSequence before the first modelled call

shared == << now, icmpSequence, icmpSequenceMutex, start >>
seqv == << g, tmp, ret, locks, ticket, calls >>
setup == << t1, deadline, ip, requestType, replyType, readDeadline, deferred, opened, resolves >>
codec == << wm, wb, sent >>
loopv == << rb, peer, recv, log, events >>
result == << pc, success, exit, socket >>
vars == << shared, seqv, setup, codec, loopv, result >>

NoMessage == [Type |-> NilType, Code |-> 0, Body |-> [ID |-> 0, Seq |-> 0, Data |-> << >>]]
NoPacket == [peer |-> "", data |-> << >>]

\* The process has drawn no sequence number yet, or has drawn 65535 of them.
InitialSequences == {0, Uint16 - 1}

Init ==
  /\ now = 0
  /\ icmpSequence \in InitialSequences
  /\ icmpSequenceMutex = 0
  /\ pc = [p \in Probes |-> "idle"]
  /\ t1 = [p \in Probes |-> 0]
  /\ deadline = [p \in Probes |-> 0]
  /\ ip = [p \in Probes |-> NoIP]
  /\ requestType = [p \in Probes |-> NilType]
  /\ replyType = [p \in Probes |-> NilType]
  /\ socket = [p \in Probes |-> "nil"]
  /\ readDeadline = [p \in Probes |-> [set |-> FALSE, at |-> 0]]
  /\ deferred = [p \in Probes |-> FALSE]
  /\ g = [p \in Probes |-> "idle"]
  /\ tmp = [p \in Probes |-> 0]
  /\ ret = [p \in Probes |-> 0]
  /\ wm = [p \in Probes |-> NoMessage]
  /\ wb = [p \in Probes |-> << >>]
  /\ rb = [p \in Probes |-> << >>]
  /\ peer = [p \in Probes |-> ""]
  /\ success = [p \in Probes |-> FALSE]
  /\ exit = [p \in Probes |-> "none"]
  /\ sent = [p \in Probes |-> << >>]
  /\ recv = [p \in Probes |-> NoPacket]
  /\ log = [p \in Probes |-> << >>]
  /\ events = 0
  /\ opened = [p \in Probes |-> 0]
  /\ resolves = [p \in Probes |-> 0]
  /\ locks = 0
  /\ ticket = [p \in Probes |-> 0]
  /\ calls = 0
  /\ start = icmpSequence

\* Time passes.
Tick ==
  /\ now < MaxTime
  /\ now' = now + 1
  /\ UNCHANGED << icmpSequence, icmpSequenceMutex, start, seqv, setup, codec, loopv, result >>

\* ------------------------------------------------------- getICMPSequence
\* icmpSequenceMutex.Lock() returns only while no caller holds the mutex.
CanLockAnyway(p) == TRUE
CanLock(p) == icmpSequenceMutex = 0

\* icmpSequence++ on a uint16: the stored value wraps past 65535.
IncrementNoWrap(v) == IF v + 1 < Uint16 THEN v + 1 ELSE v
Increment(v) == (v + 1) % Uint16

\* icmpSequenceMutex.Lock()
SeqLock(p) ==
  /\ g[p] = "call"
  /\ CanLock(p)
  /\ icmpSequenceMutex' = p
  /\ g' = [g EXCEPT ![p] = "locked"]
  /\ locks' = locks + 1
  /\ ticket' = [ticket EXCEPT ![p] = locks + 1]
  /\ UNCHANGED << now, start, icmpSequence, tmp, ret, calls, setup, codec, loopv, result >>

\* icmpSequence++ : the load ...
SeqLoad(p) ==
  /\ g[p] = "locked"
  /\ tmp' = [tmp EXCEPT ![p] = icmpSequence]
  /\ g' = [g EXCEPT ![p] = "loaded"]
  /\ UNCHANGED << shared, ret, locks, ticket, calls, setup, codec, loopv, result >>

\* ... and the store.
SeqStore(p) ==
  /\ g[p] = "loaded"
  /\ icmpSequence' = Increment(tmp[p])
  /\ g' = [g EXCEPT ![p] = "stored"]
  /\ UNCHANGED << now, start, icmpSequenceMutex, tmp, ret, locks, ticket, calls, setup, codec, loopv, result >>

\* return icmpSequence, then the deferred icmpSequenceMutex.Unlock().
SeqReturn(p) ==
  /\ g[p] = "stored"
  /\ ret' = [ret EXCEPT ![p] = icmpSequence]
  /\ icmpSequenceMutex' = 0
  /\ g' = [g EXCEPT ![p] = "returned"]
  /\ UNCHANGED << now, start, icmpSequence, tmp, locks, ticket, calls, setup, codec, loopv, result >>

getICMPSequence(p) == SeqLock(p) \/ SeqLoad(p) \/ SeqStore(p) \/ SeqReturn(p)

\* ------------------------------------------------------------- ProbeICMP
\* A return statement: the result is set and the deferred socket.Close()
\* runs when it has been registered.
ReturnLeaking(p, val, why) ==
  /\ pc' = [pc EXCEPT ![p] = "done"]
  /\ success' = [success EXCEPT ![p] = val]
  /\ exit' = [exit EXCEPT ![p] = why]
  /\ socket' = socket
Return(p, val, why) ==
  /\ pc' = [pc EXCEPT ![p] = "done"]
  /\ success' = [success EXCEPT ![p] = val]
  /\ exit' = [exit EXCEPT ![p] = why]
  /\ socket' = [socket EXCEPT ![p] = IF deferred[p] THEN "closed" ELSE @]

\* Control moves on inside the function.
Goto(p, label) ==
  /\ pc' = [pc EXCEPT ![p] = label]
  /\ UNCHANGED << success, exit, socket >>

\* The call, ctx.Deadline() and the first time.Now() of line 53.
Call(p) ==
  /\ pc[p] = "idle"
  /\ t1' = [t1 EXCEPT ![p] = now]
  /\ Goto(p, "deadline")
  /\ UNCHANGED << shared, seqv, deadline, ip, requestType, replyType, readDeadline,
                  deferred, opened, resolves, codec, loopv >>

\* deadline := time.Now().Add(timeoutDeadline.Sub(time.Now())): the second
\* time.Now() is read after the first.
ComputeDeadline(p) ==
  /\ pc[p] = "deadline"
  /\ deadline' = [deadline EXCEPT ![p] = t1[p] + (CtxDeadline - now)]
  /\ t1' = [t1 EXCEPT ![p] = 0]
  /\ Goto(p, "resolve")
  /\ UNCHANGED << shared, seqv, ip, requestType, replyType, readDeadline,
                  deferred, opened, resolves, codec, loopv >>

\* ip, err := chooseProtocol(...); if err != nil { return false }
ResolveIgnoringError(p) ==
  /\ pc[p] = "resolve"
  /\ resolves' = [resolves EXCEPT ![p] = @ + 1]
  /\ \E r \in chooseProtocol :
       /\ ip' = [ip EXCEPT ![p] = IF r.err THEN TargetV4 ELSE r.ip]
       /\ exit' = [exit EXCEPT ![p] = IF r.err THEN "resolve" ELSE @]
       /\ pc' = [pc EXCEPT ![p] = "listen"]
       /\ UNCHANGED << success, socket >>
  /\ UNCHANGED << shared, seqv, t1, deadline, requestType, replyType, readDeadline,
                  deferred, opened, codec, loopv >>
Resolve(p) ==
  /\ pc[p] = "resolve"
  /\ resolves' = [resolves EXCEPT ![p] = @ + 1]
  /\ \E r \in chooseProtocol :
       IF r.err
       THEN /\ Return(p, FALSE, "resolve")
            /\ ip' = ip
       ELSE /\ ip' = [ip EXCEPT ![p] = r.ip]
            /\ Goto(p, "listen")
  /\ UNCHANGED << shared, seqv, t1, deadline, requestType, replyType, readDeadline,
                  deferred, opened, codec, loopv >>

\* The request and reply types of the address family, icmp.ListenPacket on
\* the family's wildcard address, and defer socket.Close() once it is open.
ListenPacket(p) ==
  /\ pc[p] = "listen"
  /\ requestType' = [requestType EXCEPT ![p] = IF ip[p].v4 THEN V4Echo ELSE V6EchoRequest]
  /\ replyType' = [replyType EXCEPT ![p] = IF ip[p].v4 THEN V4EchoReply ELSE V6EchoReply]
  /\ \E err \in BOOLEAN :
       IF err
       THEN /\ Return(p, success[p], "listen")
            /\ UNCHANGED << opened, deferred >>
       ELSE /\ pc' = [pc EXCEPT ![p] = "getseq"]
            /\ socket' = [socket EXCEPT ![p] = "open"]
            /\ opened' = [opened EXCEPT ![p] = @ + 1]
            /\ deferred' = [deferred EXCEPT ![p] = TRUE]
            /\ UNCHANGED << success, exit >>
  /\ UNCHANGED << shared, seqv, t1, deadline, ip, readDeadline, resolves, codec, loopv >>

\* The call of getICMPSequence() at line 80.
CallSequence(p) ==
  /\ pc[p] = "getseq"
  /\ g[p] = "idle"
  /\ g' = [g EXCEPT ![p] = "call"]
  /\ Goto(p, "body")
  /\ UNCHANGED << shared, tmp, ret, locks, ticket, calls, setup, codec, loopv >>

\* body := &icmp.Echo{...} with the sequence number drawn, wm := icmp.Message{...}
EchoRequestFixedSeq(p) ==
  [Type |-> requestType[p], Code |-> 0,
   Body |-> [ID |-> Getpid % 65536, Seq |-> 0, Data |-> Data]]
EchoRequest(p) ==
  [Type |-> requestType[p], Code |-> 0,
   Body |-> [ID |-> Getpid % 65536, Seq |-> ret[p], Data |-> Data]]

\* The message is built, then wb, err := wm.Marshal(nil); if err != nil { return }
MarshalRequestIgnoringError(p) ==
  /\ pc[p] = "body"
  /\ g[p] = "returned"
  /\ wm' = [wm EXCEPT ![p] = EchoRequest(p)]
  /\ \E o \in MarshalOutcomes :
       /\ wb' = [wb EXCEPT ![p] = IF o = "err" THEN << >> ELSE Marshal(wm'[p])]
       /\ exit' = [exit EXCEPT ![p] = IF o = "err" THEN "marshal" ELSE @]
       /\ pc' = [pc EXCEPT ![p] = "write"]
       /\ UNCHANGED << success, socket >>
  /\ UNCHANGED << shared, seqv, setup, sent, loopv >>
MarshalRequest(p) ==
  /\ pc[p] = "body"
  /\ g[p] = "returned"
  /\ wm' = [wm EXCEPT ![p] = EchoRequest(p)]
  /\ \E o \in MarshalOutcomes :
       IF o = "err"
       THEN /\ Return(p, success[p], "marshal")
            /\ wb' = [wb EXCEPT ![p] = << >>]
       ELSE /\ wb' = [wb EXCEPT ![p] = Marshal(wm'[p])]
            /\ Goto(p, "write")
  /\ UNCHANGED << shared, seqv, setup, sent, loopv >>

\* socket.WriteTo(wb, ip); a failed write returns.
WriteToIgnoringError(p) ==
  /\ pc[p] = "write"
  /\ \E err \in BOOLEAN :
       /\ sent' = [sent EXCEPT ![p] =
                     IF err THEN @ ELSE Append(@, [data |-> wb[p], dst |-> ip[p].addr])]
       /\ exit' = [exit EXCEPT ![p] = IF err THEN "write" ELSE @]
       /\ pc' = [pc EXCEPT ![p] = "remarshal"]
       /\ UNCHANGED << success, socket >>
  /\ UNCHANGED << shared, seqv, setup, wm, wb, loopv >>
WriteToRetrying(p) ==
  /\ pc[p] = "write"
  /\ \E err \in BOOLEAN :
       /\ sent' = [sent EXCEPT ![p] = Append(@, [data |-> wb[p], dst |-> ip[p].addr])]
       /\ exit' = [exit EXCEPT ![p] = IF err THEN "write" ELSE @]
       /\ pc' = [pc EXCEPT ![p] = IF err THEN "write" ELSE "remarshal"]
       /\ UNCHANGED << success, socket >>
  /\ UNCHANGED << shared, seqv, setup, wm, wb, loopv >>
WriteTo(p) ==
  /\ pc[p] = "write"
  /\ \E err \in BOOLEAN :
       IF err
       THEN /\ Return(p, success[p], "write")
            /\ sent' = sent
       ELSE /\ sent' = [sent EXCEPT ![p] = Append(@, [data |-> wb[p], dst |-> ip[p].addr])]
            /\ Goto(p, "remarshal")
  /\ UNCHANGED << shared, seqv, setup, wm, wb, loopv >>

\* wm.Type = replyType; wb, err = wm.Marshal(nil); if err != nil { return }
MarshalReply(p) ==
  /\ pc[p] = "remarshal"
  /\ wm' = [wm EXCEPT ![p].Type = replyType[p]]
  /\ \E o \in MarshalOutcomes :
       IF o = "err"
       THEN /\ Return(p, success[p], "remarshal")
            /\ wb' = [wb EXCEPT ![p] = << >>]
       ELSE /\ wb' = [wb EXCEPT ![p] = Marshal(wm'[p])]
            /\ Goto(p, "setdeadline")
  /\ UNCHANGED << shared, seqv, setup, sent, loopv >>

\* rb := make([]byte, 1500); socket.SetReadDeadline(deadline)
SetReadDeadline(p) ==
  /\ pc[p] = "setdeadline"
  /\ \E err \in BOOLEAN :
       IF err
       THEN /\ Return(p, success[p], "setdeadline")
            /\ readDeadline' = readDeadline
       ELSE /\ readDeadline' = [readDeadline EXCEPT ![p] = [set |-> TRUE, at |-> deadline[p]]]
            /\ Goto(p, "read")
  /\ UNCHANGED << shared, seqv, t1, deadline, ip, requestType, replyType, deferred,
                  opened, resolves, codec, loopv >>

\* The poller refuses a read once the socket's read deadline has passed
\* (a read at the deadline itself is a timeout).
NeverExceeded(p) == FALSE
ExceededEarly(p) == readDeadline[p].set /\ now + 1 >= readDeadline[p].at
DeadlineExceeded(p) == readDeadline[p].set /\ now >= readDeadline[p].at

\* if nerr, ok := err.(net.Error); ok && nerr.Timeout() { return }
AnyReadErrorReturns(kind) == TRUE
ReadErrorReturns(kind) == kind = "timeout"

\* peer.String() != ip.String() is false.
FromAnyone(pr, ipaddr) == TRUE
FromTarget(pr, ipaddr) == pr = ipaddr.addr

\* if replyType == ipv6.ICMPTypeEchoReply { rb[2] = 0; rb[3] = 0 }
NotAdjusted(rt, b) == b
AlwaysAdjusted(rt, b) == ClearChecksum(b)
Adjusted(rt, b) == IF rt = V6EchoReply THEN ClearChecksum(b) ELSE b

\* bytes.Compare(rb[:n], wb) == 0
MatchesPrefix(b, w) == Len(b) >= Len(w) /\ SubSeq(b, 1, Len(w)) = w
MatchesHeader(b, w) == Len(b) >= 8 /\ Len(w) >= 8 /\ SubSeq(b, 1, 8) = SubSeq(w, 1, 8)
Matches(b, w) == b = w

\* What the transport can deliver to the probe's socket while it listens.
\* From the target: the reply to the probe's own request (with any kernel
\* checksum), that reply damaged, the request with only its type flipped, and
\* the replies to the requests of the other probes of the process that use the
\* same address family.  From a stranger, whose bytes the probe never looks
\* at: the bytes of a correct reply, or nothing.
Arrivals(p) ==
  LET w == sent[p][1].data
      v4 == ip[p].v4
      r0 == EchoReplyTo(w, v4, << 0, 0 >>)
      mine == { EchoReplyTo(w, v4, ck) : ck \in KernelChecksums }
      theirs == { EchoReplyTo(sent[q][1].data, v4, << 0, 0 >>) :
                    q \in { x \in Probes \ {p} : sent[x] # << >> /\ ip[x].v4 = v4 } }
      datas == mine \cup theirs \cup
               { TypeFlipped(w, v4), Corrupted(r0), Truncated(r0), Padded(r0), << >> }
  IN  { [peer |-> ip[p].addr, data |-> d] : d \in datas }
        \cup { [peer |-> StrangerOf(ip[p]), data |-> d] : d \in { r0, << >> } }

\* One iteration of the receive loop: socket.ReadFrom(rb) and what follows it.
ReadFrom(p) ==
  /\ pc[p] = "read"
  /\ \/ \* an error: a timeout once the read deadline has passed, which returns;
        \* any other error is logged and the loop continues
        \E kind \in {"timeout", "other"} :
          /\ (kind = "timeout") <=> DeadlineExceeded(p)
          /\ IF kind = "timeout"
             THEN /\ log' = [log EXCEPT ![p] = Append(@, "timeout")]
                  /\ recv' = [recv EXCEPT ![p] = NoPacket]
                  /\ peer' = [peer EXCEPT ![p] = ""]
                  /\ events' = events
             ELSE IF events < MaxReads
             THEN /\ log' = [log EXCEPT ![p] = Append(@, "err")]
                  /\ recv' = [recv EXCEPT ![p] = NoPacket]
                  /\ peer' = [peer EXCEPT ![p] = ""]
                  /\ events' = events + 1
             ELSE UNCHANGED << log, recv, peer, events >>
          /\ rb' = rb
          /\ IF ReadErrorReturns(kind)
             THEN Return(p, success[p], IF kind = "timeout" THEN "timeout" ELSE "readerr")
             ELSE Goto(p, "read")
     \/ \* a packet
        /\ ~DeadlineExceeded(p)
        /\ events < MaxReads
        /\ events' = events + 1
        /\ \E pkt \in Arrivals(p) :
             /\ recv' = [recv EXCEPT ![p] = pkt]
             /\ peer' = [peer EXCEPT ![p] = pkt.peer]
             /\ IF ~FromTarget(pkt.peer, ip[p])
                THEN /\ rb' = [rb EXCEPT ![p] = pkt.data]
                     /\ log' = [log EXCEPT ![p] = Append(@, "peer")]
                     /\ Goto(p, "read")
                ELSE /\ rb' = [rb EXCEPT ![p] = Adjusted(replyType[p], pkt.data)]
                     /\ IF Matches(rb'[p], wb[p])
                        THEN /\ log' = [log EXCEPT ![p] = Append(@, "match")]
                             /\ Return(p, TRUE, "match")
                        ELSE /\ log' = [log EXCEPT ![p] = Append(@, "bytes")]
                             /\ Goto(p, "read")
  /\ UNCHANGED << shared, seqv, setup, codec >>

ProbeICMP(p) ==
  \/ ComputeDeadline(p)
  \/ Resolve(p)
  \/ ListenPacket(p)
  \/ CallSequence(p)
  \/ MarshalRequest(p)
  \/ WriteTo(p)
  \/ MarshalReply(p)
  \/ SetReadDeadline(p)
  \/ ReadFrom(p)

Next ==
  \/ Tick
  \/ \E p \in Probes : Call(p) \/ ProbeICMP(p) \/ getICMPSequence(p)

Spec == Init /\ [][Next]_vars

\* The state of the process before any sequence number is drawn.
ProcessStart == Init /\ icmpSequence = 0

\* From process start, every started invocation keeps running and time keeps
\* passing.
FairSpec ==
  /\ ProcessStart
  /\ [][Next]_vars
  /\ WF_vars(Tick)
  /\ \A p \in Probes : WF_vars(ProbeICMP(p) \/ getICMPSequence(p))

\* ----------------------------------------- the counter, called sequentially
\* One caller that calls getICMPSequence again and again from process start.
SeqCaller ==
  /\ calls < MaxCalls
  /\ g[1] \in {"idle", "returned"}
  /\ g' = [g EXCEPT ![1] = "call"]
  /\ calls' = calls + 1
  /\ UNCHANGED << shared, tmp, ret, locks, ticket, setup, codec, loopv, result >>

SeqNext == SeqCaller \/ getICMPSequence(1)
SeqSpec == ProcessStart /\ [][SeqNext]_vars

\* ------------------------------------------------------------ properties
Listening(p) == pc[p] = "read"
Done(p) == pc[p] = "done"
\* The probe has read a packet and recv[p] is that packet.
Received(p) == pc[p] \in {"read", "done"} /\ recv[p] # NoPacket
FromItsTarget(p) == Received(p) /\ recv[p].peer = ip[p].addr
\* The bytes the probe wrote to its socket.
Request(p) == sent[p][1].data
ReturnedTrue(p) == Done(p) /\ success[p]
\* A step in which the probe returns true.
ReturnsTrue(p) == pc[p] # "done" /\ pc'[p] = "done" /\ success'[p]

\* C1 as stated: for IPv4 and for IPv6, a packet from the target that is the
\* request with only the type byte changed to echo reply makes the probe
\* return true.
C1_TypeFlipMatchesBothFamilies ==
  \A p \in Probes :
    (FromItsTarget(p) /\ recv[p].data = TypeFlipped(Request(p), ip[p].v4))
      => ReturnedTrue(p)

C1_State ==
  \A p \in Probes :
    /\ (FromItsTarget(p) /\ ~ip[p].v4 /\ recv[p].data = TypeFlipped(Request(p), FALSE))
         => ReturnedTrue(p)
    /\ (FromItsTarget(p) /\ ip[p].v4
          /\ recv[p].data = PlaceChecksum([TypeFlipped(Request(p), TRUE) EXCEPT ![3] = 0, ![4] = 0]))
         => ReturnedTrue(p)
    /\ (FromItsTarget(p) /\ ip[p].v4 /\ recv[p].data = TypeFlipped(Request(p), TRUE))
         => (Listening(p) /\ ~success[p])
C1_Step ==
  \A p \in Probes : ReturnsTrue(p) => now < readDeadline[p].at

\* C1 amended: an IPv6 probe returns true, before the read deadline, on a
\* packet from the target that is the request with only the type byte changed
\* to echo reply; an IPv4 probe returns true on that packet only when its
\* checksum bytes are recomputed for the reply, and with the request's checksum
\* bytes left as sent it discards the packet and keeps listening.
C1_TypeFlipMatches == []C1_State /\ [][C1_Step]_vars

\* An IPv6 probe has returned true on the type-flipped request.
C1_Witness ==
  \E p \in Probes :
    /\ ReturnedTrue(p) /\ FromItsTarget(p) /\ ~ip[p].v4
    /\ recv[p].data = TypeFlipped(Request(p), FALSE)

\* C2: the values getICMPSequence returns, taken in the order its callers
\* acquired the mutex, are consecutive modulo 65536, and the values returned
\* to different callers are distinct.
C2_NoLostUpdates ==
  \A p, q \in Probes :
    (g[p] = "returned" /\ g[q] = "returned") =>
      /\ (ret[q] + Uint16 - ret[p]) % Uint16 = (ticket[q] + Uint16 - ticket[p]) % Uint16
      /\ (p # q => ret[p] # ret[q])

\* Two concurrent callers were served across the wrap from 65535 to 0.
C2_Witness ==
  \E p, q \in Probes :
    /\ g[p] = "returned" /\ g[q] = "returned"
    /\ ticket[q] = ticket[p] + 1 /\ ret[p] = 0 /\ ret[q] = 1

\* C3: a probe opens at most one socket, and a probe that has returned holds
\* no open socket: the one it opened is closed, whatever the exit.
C3_SocketClosedOnReturn ==
  \A p \in Probes :
    /\ opened[p] <= 1
    /\ (socket[p] = "nil") = (opened[p] = 0)
    /\ Done(p) => socket[p] = (IF opened[p] = 1 THEN "closed" ELSE "nil")

\* One probe returned on a match and another on a failed SetReadDeadline,
\* both with their socket closed.
C3_Witness ==
  \E p, q \in Probes :
    /\ Done(p) /\ exit[p] = "match" /\ socket[p] = "closed"
    /\ Done(q) /\ exit[q] = "setdeadline" /\ socket[q] = "closed"

\* No packet was delivered to the probe: every read ended in an error.
NothingDelivered(p) == \A i \in 1..Len(log[p]) : log[p][i] \in {"err", "timeout"}

C4_State ==
  \A p \in Probes :
    (Done(p) /\ readDeadline[p].set /\ NothingDelivered(p))
      => (~success[p] /\ exit[p] = "timeout")
C4_Step ==
  \A p \in Probes :
    (Listening(p) /\ pc'[p] = "done" /\ NothingDelivered(p)')
      => (now >= readDeadline[p].at /\ log'[p][Len(log'[p])] = "timeout")

\* C4: a probe that got as far as setting the read deadline and to which no
\* packet is delivered returns false, through a timeout of ReadFrom, and not
\* before the read deadline has passed.
C4_SilenceTimesOut == []C4_State /\ [][C4_Step]_vars

\* A probe timed out on its first read.
C4_Witness ==
  \E p \in Probes :
    Done(p) /\ log[p] = << "timeout" >> /\ ~success[p] /\ now >= readDeadline[p].at

\* A correct echo reply to the probe's request.
CorrectReply(p, d) == \E ck \in KernelChecksums : d = EchoReplyTo(Request(p), ip[p].v4, ck)

\* C5: a packet whose peer is not the target is discarded whatever its bytes
\* and the probe keeps listening; a correct reply from the target after it
\* makes the probe return true.
C5_StrangerThenReply ==
  \A p \in Probes :
    /\ (Received(p) /\ recv[p].peer # ip[p].addr)
         => (Listening(p) /\ ~success[p] /\ log[p][Len(log[p])] = "peer")
    /\ (FromItsTarget(p) /\ CorrectReply(p, recv[p].data))
         => (ReturnedTrue(p) /\ log[p][Len(log[p])] = "match")

\* Two packets were read: the first discarded for its peer, the second, a
\* correct reply from the target, matched.
C5_Witness ==
  \E p \in Probes :
    /\ log[p] = << "peer", "match" >> /\ ReturnedTrue(p)
    /\ FromItsTarget(p) /\ CorrectReply(p, recv[p].data)

\* C6: for an IPv6 probe a packet from the target that equals the expected
\* reply at every offset except 2 and 3 is a match, whatever those two bytes.
C6_ChecksumIgnoredV6 ==
  \A p \in Probes :
    (/\ FromItsTarget(p) /\ ~ip[p].v4
     /\ Len(recv[p].data) = Len(wb[p])
     /\ \A i \in 1..Len(wb[p]) : i \in {3, 4} \/ recv[p].data[i] = wb[p][i])
      => ReturnedTrue(p)

\* An IPv6 probe matched a reply whose checksum bytes differ from the
\* expected buffer's.
C6_Witness ==
  \E p \in Probes :
    /\ ReturnedTrue(p) /\ FromItsTarget(p) /\ ~ip[p].v4
    /\ << recv[p].data[3], recv[p].data[4] >> # << wb[p][3], wb[p][4] >>

\* C7: when marshalling the echo request fails the probe returns false, has
\* written no packet and issues no receive.
C7_MarshalFailure ==
  \A p \in Probes :
    exit[p] = "marshal" =>
      (Done(p) /\ ~success[p] /\ sent[p] = << >> /\ log[p] = << >>)

C7_Witness ==
  \E p \in Probes : exit[p] = "marshal" /\ Done(p) /\ socket[p] = "closed"

\* C8: when resolution fails the probe returns false at once: no socket is
\* opened, nothing is sent or received, and chooseProtocol is called once.
C8_ResolutionFailure ==
  \A p \in Probes :
    exit[p] = "resolve" =>
      /\ Done(p) /\ ~success[p]
      /\ opened[p] = 0 /\ socket[p] = "nil"
      /\ sent[p] = << >> /\ log[p] = << >>
      /\ resolves[p] = 1

C8_Witness ==
  \E p \in Probes : exit[p] = "resolve" /\ Done(p) /\ resolves[p] = 1

\* C9: every invocation of ProbeICMP returns, whatever the socket produces,
\* once the deadline passes.
C9_Terminates == \A p \in Probes : (pc[p] # "idle") ~> Done(p)

\* A probe returned by timeout after a run of non-timeout read errors.
C9_Witness ==
  \E p \in Probes :
    Done(p) /\ exit[p] = "timeout" /\ Len(log[p]) = MaxReads + 1
      /\ \A i \in 1..MaxReads : log[p][i] = "err"

\* C10: the counter stays within 0..65535 and the k-th sequential call from
\* process start returns k mod 65536.
C10_SequentialWrap ==
  /\ icmpSequence \in 0..(Uint16 - 1)
  /\ g[1] = "returned" => ret[1] = calls % Uint16

\* The call after the one that returned 65535 returned 0.
C10_Witness == g[1] = "returned" /\ calls = Uint16 /\ ret[1] = 0

\* The bytes the probe compares with the expected reply: those read, with
\* offsets 2 and 3 zeroed for an IPv6 probe only.
Compared(p) == IF ip[p].v4 THEN recv[p].data ELSE ClearChecksum(recv[p].data)
LastRead(p) == log[p][Len(log[p])]

\* C11: a packet from the target whose bytes, after the IPv6 checksum
\* adjustment, differ from the expected reply is not a match and does not end
\* the loop: the probe has not returned and is about to read again.
C11_MismatchKeepsListening ==
  \A p \in Probes :
    (FromItsTarget(p) /\ Compared(p) # wb[p])
      => (Listening(p) /\ ~success[p] /\ LastRead(p) = "bytes")

\* After a mismatching packet from the target the probe read again and matched.
C11_Witness ==
  \E p \in Probes : log[p] = << "bytes", "match" >> /\ ReturnedTrue(p)

\* C12: ProbeICMP returns true exactly when a read delivered, from the target,
\* bytes that (checksum zeroed for IPv6 only) equal the whole expected reply,
\* so as many bytes as the expected reply has; every other return is false.
C12_TrueIffMatched ==
  \A p \in Probes :
    /\ success[p] => Done(p)
    /\ Done(p) =>
         (success[p] <=>
            /\ exit[p] = "match"
            /\ FromItsTarget(p)
            /\ Len(recv[p].data) = Len(wb[p])
            /\ Compared(p) = wb[p])

\* A probe returned true on a full-length reply after a discarded packet.
C12_Witness ==
  \E p \in Probes :
    /\ ReturnedTrue(p) /\ log[p] = << "bytes", "match" >>
    /\ Len(recv[p].data) = Len(wb[p]) /\ Len(wb[p]) = 8 + Len(Data)

\* C13: a receive is issued only after the request was written and the read
\* deadline set; after a failed write, a failed marshal of the expected reply
\* or a failed SetReadDeadline the probe has returned false without a receive.
C13_ReceiveAfterWriteAndDeadline ==
  \A p \in Probes :
    /\ (Listening(p) \/ log[p] # << >>) => (Len(sent[p]) = 1 /\ readDeadline[p].set)
    /\ exit[p] \in {"write", "remarshal", "setdeadline"}
         => (Done(p) /\ ~success[p] /\ log[p] = << >>)

\* A probe wrote its request, failed to set the read deadline and returned.
C13_Witness ==
  \E p \in Probes :
    exit[p] = "setdeadline" /\ Done(p) /\ Len(sent[p]) = 1 /\ log[p] = << >>

\* No invocation is running.
Quiescent == \A p \in Probes : pc[p] \in {"idle", "done"}
Completed == { p \in Probes : Done(p) }
\* How far the counter has advanced, modulo 65536.
Advance == (icmpSequence + Uint16 - start) % Uint16

\* C14 as stated: after N completed invocations, whatever their outcomes, the
\* counter has advanced by N modulo 65536.
C14_OncePerAttempt ==
  Quiescent => Advance = Cardinality(Completed) % Uint16

\* C14 amended: the counter is incremented once by every invocation that
\* opened its socket and not by one that failed at resolution or at socket
\* open: after the completed invocations the counter has advanced by the
\* number of them that opened a socket, modulo 65536.
C14_OncePerOpenedSocket ==
  Quiescent => Advance = Cardinality({ p \in Completed : opened[p] = 1 }) % Uint16

\* Two invocations completed, one failed at resolution, and the counter
\* advanced by one, from 65535 to 0.
C14_Witness ==
  /\ Quiescent /\ start = Uint16 - 1 /\ icmpSequence = 0
  /\ \E p, q \in Probes :
       Done(p) /\ exit[p] = "resolve" /\ Done(q) /\ opened[q] = 1

\* C15: the read deadline a probe sets is the caller's absolute deadline.
C15_ReadDeadlineIsCallers ==
  \A p \in Probes : readDeadline[p].set => readDeadline[p].at = CtxDeadline

\* C16: a non-timeout read error leaves the probe listening, a correct reply
\* from the target after it makes the probe return true, and a probe that
\* listened returns false only on a timeout.
C16_ReadErrorContinues ==
  \A p \in Probes :
    /\ (log[p] # << >> /\ LastRead(p) = "err") => (Listening(p) /\ ~success[p])
    /\ (FromItsTarget(p) /\ CorrectReply(p, recv[p].data)) => ReturnedTrue(p)
    /\ (Done(p) /\ readDeadline[p].set /\ ~success[p])
         => (exit[p] = "timeout" /\ LastRead(p) = "timeout")

\* A read error was followed by a correct reply and the probe returned true.
C16_Witness ==
  \E p \in Probes :
    /\ log[p] = << "err", "match" >> /\ ReturnedTrue(p)
    /\ FromItsTarget(p) /\ CorrectReply(p, recv[p].data)

\* C17: an invocation writes at most one echo request: a failed write ends it
\* with nothing written, and reads, discards and read errors write nothing.
C17_AtMostOneRequest ==
  \A p \in Probes :
    /\ Len(sent[p]) <= 1
    /\ exit[p] = "write" => (Done(p) /\ sent[p] = << >>)
    /\ log[p] # << >> => Len(sent[p]) = 1

\* A probe went through a discarded packet, a read error and the timeout with
\* its single request written.
C17_Witness ==
  \E p \in Probes :
    log[p] = << "bytes", "err", "timeout" >> /\ Done(p) /\ Len(sent[p]) = 1

\* The sequence field of marshalled bytes (offsets 6 and 7).
SeqField(b) == << b[7], b[8] >>
\* wb holds the expected reply.
Expecting(p) ==
  \/ pc[p] \in {"setdeadline", "read"}
  \/ Done(p) /\ exit[p] \in {"setdeadline", "timeout", "match"}

\* C18: two probes of the process with the same target expect replies that
\* differ in the sequence field, and a correct reply to the request of one,
\* delivered to the other from that target, is discarded by the other.
C18_CrossProbeIsolation ==
  \A p, q \in Probes :
    (p # q /\ ip[p] = ip[q]) =>
      /\ (Expecting(p) /\ Expecting(q)) => SeqField(wb[p]) # SeqField(wb[q])
      /\ (FromItsTarget(p) /\ sent[q] # << >> /\ CorrectReply(q, recv[p].data))
           => (Listening(p) /\ ~success[p] /\ LastRead(p) = "bytes")

\* A probe read the reply to the other probe's request and keeps listening.
C18_Witness ==
  \E p, q \in Probes :
    /\ p # q /\ ip[p] = ip[q] /\ sent[q] # << >>
    /\ FromItsTarget(p) /\ CorrectReply(q, recv[p].data) /\ Listening(p)

\* The packet equals the expected reply at every offset except 2 and 3.
DiffersInChecksumOnly(p) ==
  /\ Len(recv[p].data) = Len(wb[p])
  /\ \A i \in 1..Len(wb[p]) : i \in {3, 4} \/ recv[p].data[i] = wb[p][i]
  /\ << recv[p].data[3], recv[p].data[4] >> # << wb[p][3], wb[p][4] >>

\* C19: an IPv4 probe compares the bytes as read: a packet from the target
\* that equals the expected reply except in bytes 2-3 is not a match and the
\* probe keeps listening.
C19_ChecksumComparedV4 ==
  \A p \in Probes :
    (FromItsTarget(p) /\ ip[p].v4) =>
      /\ rb[p] = recv[p].data
      /\ DiffersInChecksumOnly(p) => (Listening(p) /\ ~success[p])

\* An IPv4 probe discarded a reply that differs in the checksum bytes only.
C19_Witness ==
  \E p \in Probes :
    FromItsTarget(p) /\ ip[p].v4 /\ DiffersInChecksumOnly(p) /\ Listening(p)

====
